---- MODULE Spec2Model ----
(***************************************************************************)
(* The two PyCommands of the repository, memhash.py and memyara.py, as one *)
(* state machine.  One behaviour is one invocation of main(args) by the    *)
(* host debugger.  Strings are sequences of one-character strings, so that *)
(* getopt, str.split('.') and int(text, 16) are computed, not assumed.     *)
(* Every call into the host debugger or into a library (PE, yara) appends  *)
(* an event to `calls`; what the host or library answers is chosen         *)
(* nondeterministically at the call.                                       *)
(***************************************************************************)
EXTENDS Integers, Sequences, FiniteSets, TLC

VARIABLES
    script,      \* "memhash" or "memyara": which PyCommand the host runs
    argv,        \* the argument list main() was called with
    pc,          \* position inside main() and the function it delegates to
    opts,        \* getopt's list of (option, argument) pairs
    args,        \* getopt's remaining positional arguments
    module,      \* main's local `module`
    rules_file,  \* memyara main's local `rules_file`
    modname,     \* module_name after the '.dll' suffix rule
    mod,         \* what imm.getModule returned
    pe,          \* the parsed PE: its sections and SectionAlignment
    idx,         \* number of sections hash_module has already hashed
    start_addr,  \* hash_address_range / run_yara_on_address_range local
    end_addr,    \* hash_address_range / run_yara_on_address_range local
    matches,     \* number of match records rules.match returned, -1 before
    calls,       \* the host and library calls made so far, in order
    ret          \* how main ended: still running, returned a string, raised

vars == <<script, argv, pc, opts, args, module, rules_file, modname, mod, pe, idx,
          start_addr, end_addr, matches, calls, ret>>

----------------------------------------------------------------------------
(* Bounds of the model *)

MaxArgs == 4
MaxSections == 2
MaxMatches == 2

----------------------------------------------------------------------------
(* Strings *)

None == <<"<None>">>

Truthy(x) == x # None /\ x # <<>>

T_h == <<"-", "h">>
T_m == <<"-", "m">>
T_r == <<"-", "r">>
T_dashdash == <<"-", "-">>
T_neg5 == <<"-", "5">>
T_10 == <<"1", "0">>
T_0x20 == <<"0", "x", "2", "0">>
T_exe == <<"e", "x", "e">>
T_a_dll == <<"a", ".", "d", "l", "l">>
T_A_DLL == <<"A", ".", "D", "L", "L">>
T_empty == <<>>

Tokens == {T_h, T_m, T_r, T_dashdash, T_neg5, T_10, T_0x20, T_exe, T_a_dll,
           T_A_DLL, T_empty}

RECURSIVE SeqsUpTo(_, _)
SeqsUpTo(S, n) ==
    IF n = 0 THEN {<<>>}
    ELSE LET shorter == SeqsUpTo(S, n - 1)
         IN  shorter \cup {Append(s, t) : s \in {x \in shorter : Len(x) = n - 1}, t \in S}

Tail2(s) == SubSeq(s, 3, Len(s))

StartsWith(s, p) == Len(s) >= Len(p) /\ SubSeq(s, 1, Len(p)) = p

----------------------------------------------------------------------------
(* getopt.getopt(args, shortopts) of the standard library, with no long     *)
(* options.  The result is [err, opts, args]; err stands for GetoptError.   *)

SHORTOPTS_memhash == <<"h", "m", ":">>
SHORTOPTS_memyara == <<"h", "m", ":", "r", ":">>

Shortopts(s) == IF s = "memhash" THEN SHORTOPTS_memhash ELSE SHORTOPTS_memyara

\* short_has_arg: "arg", "noarg", or "error" (option not recognized)
ShortHasArg(opt, shortopts) ==
    LET hits == {i \in 1..Len(shortopts) : shortopts[i] = opt /\ opt # ":"}
    IN  IF hits = {} THEN "error"
        ELSE LET i == CHOOSE k \in hits : \A j \in hits : k <= j
             IN  IF i + 1 <= Len(shortopts) /\ shortopts[i + 1] = ":"
                 THEN "arg" ELSE "noarg"

RECURSIVE DoShorts(_, _, _, _)
DoShorts(os, optstring, shortopts, rest) ==
    IF optstring = <<>> THEN [err |-> FALSE, opts |-> os, args |-> rest]
    ELSE LET opt == Head(optstring)
             more == Tail(optstring)
             kind == ShortHasArg(opt, shortopts)
         IN  CASE kind = "error" -> [err |-> TRUE, opts |-> os, args |-> rest]
               [] kind = "noarg" ->
                    DoShorts(Append(os, [opt |-> <<"-", opt>>, arg |-> <<>>]),
                             more, shortopts, rest)
               [] kind = "arg" ->
                    IF more = <<>>
                    THEN IF rest = <<>>
                         THEN [err |-> TRUE, opts |-> os, args |-> rest]
                         ELSE [err |-> FALSE,
                               opts |-> Append(os, [opt |-> <<"-", opt>>,
                                                    arg |-> Head(rest)]),
                               args |-> Tail(rest)]
                    ELSE [err |-> FALSE,
                          opts |-> Append(os, [opt |-> <<"-", opt>>, arg |-> more]),
                          args |-> rest]

RECURSIVE GetoptLoop(_, _, _)
GetoptLoop(os, rest, shortopts) ==
    IF rest = <<>> \/ ~StartsWith(rest[1], <<"-">>) \/ rest[1] = <<"-">>
    THEN [err |-> FALSE, opts |-> os, args |-> rest]
    ELSE IF rest[1] = T_dashdash
    THEN [err |-> FALSE, opts |-> os, args |-> Tail(rest)]
    ELSE IF StartsWith(rest[1], T_dashdash)
    THEN [err |-> TRUE, opts |-> os, args |-> Tail(rest)]
    ELSE LET r == DoShorts(os, Tail(rest[1]), shortopts, Tail(rest))
         IN  IF r.err THEN r ELSE GetoptLoop(r.opts, r.args, shortopts)

Getopt(a, shortopts) == GetoptLoop(<<>>, a, shortopts)

----------------------------------------------------------------------------
(* int(text, 16): optional sign, optional 0x / 0X prefix, one or more hex   *)
(* digits.  The result is [ok, val]; ~ok stands for ValueError.             *)

HexDigits ==
    [c \in {"0", "1", "2", "3", "4", "5", "6", "7", "8", "9",
            "a", "b", "c", "d", "e", "f", "A", "B", "C", "D", "E", "F"} |->
        CASE c = "0" -> 0 [] c = "1" -> 1 [] c = "2" -> 2 [] c = "3" -> 3
          [] c = "4" -> 4 [] c = "5" -> 5 [] c = "6" -> 6 [] c = "7" -> 7
          [] c = "8" -> 8 [] c = "9" -> 9
          [] c \in {"a", "A"} -> 10 [] c \in {"b", "B"} -> 11
          [] c \in {"c", "C"} -> 12 [] c \in {"d", "D"} -> 13
          [] c \in {"e", "E"} -> 14 [] c \in {"f", "F"} -> 15]

RECURSIVE HexValue(_, _)
HexValue(digits, acc) ==
    IF digits = <<>> THEN acc
    ELSE HexValue(Tail(digits), acc * 16 + HexDigits[Head(digits)])

IntBase16(text) ==
    LET signed == text # <<>> /\ Head(text) \in {"+", "-"}
        sign == IF signed /\ Head(text) = "-" THEN -1 ELSE 1
        body == IF signed THEN Tail(text) ELSE text
        prefixed == StartsWith(body, <<"0", "x">>) \/ StartsWith(body, <<"0", "X">>)
        digits == IF prefixed THEN Tail2(body) ELSE body
    IN  IF digits # <<>> /\ \A i \in 1..Len(digits) : digits[i] \in DOMAIN HexDigits
        THEN [ok |-> TRUE, val |-> sign * HexValue(digits, 0)]
        ELSE [ok |-> FALSE, val |-> 0]

----------------------------------------------------------------------------
(* module_name.split('.')[-1] and the '.dll' suffix rule *)

RECURSIVE LastField(_, _)
LastField(s, acc) ==
    IF s = <<>> THEN acc
    ELSE IF Head(s) = "." THEN LastField(Tail(s), <<>>)
    ELSE LastField(Tail(s), Append(acc, Head(s)))

KNOWN_EXTENSIONS == {<<"e", "x", "e">>, <<"s", "y", "s">>, <<"d", "l", "l">>}

DOT_DLL == <<".", "d", "l", "l">>

LookupName(module_name) ==
    IF LastField(module_name, <<>>) \notin KNOWN_EXTENSIONS
    THEN module_name \o DOT_DLL
    ELSE module_name

----------------------------------------------------------------------------
(* What the host and the libraries may answer *)

\* a loaded module: getBaseAddress(), getSize()
LoadedModules == {[loaded |-> TRUE, base |-> 4096, size |-> 64]}

NoModule == [loaded |-> FALSE, base |-> 0, size |-> 0]

\* a section header: VirtualAddress, Misc_VirtualSize
SectionHeaders == {[va |-> 16, vsize |-> 3], [va |-> 32, vsize |-> 4]}

\* OPTIONAL_HEADER.SectionAlignment
SectionAlignments == {0, 4}

NoPE == [alignment |-> 0, sections |-> <<>>]

PEFiles == [alignment : SectionAlignments,
            sections : SeqsUpTo(SectionHeaders, MaxSections)]

----------------------------------------------------------------------------
(* How main ends *)

Running == [kind |-> "running", msg |-> "", arg |-> <<>>, nums |-> <<>>]

Return(msg, arg, nums) == [kind |-> "return", msg |-> msg, arg |-> arg, nums |-> nums]

Raise(exc) == [kind |-> "raise", msg |-> exc, arg |-> <<>>, nums |-> <<>>]

MSG_INCORRECT == "Incorrect arguments (check log window)"
MSG_NO_RULES == "Incorrect arguments (Path to Yara rule file required)"
MSG_BAD_RULES == "%s is an invalid Yara rules file"
MSG_NOT_LOADED == "%s is not a loaded module"
MSG_BAD_START == "Invalid start address (0x%s)"
MSG_BAD_END == "Invalid end address (0x%s)"
MSG_ORDER == "End address must be greater than start address"
MSG_HASHED_MODULE == "Calculated hash for %s"
MSG_HASHED_RANGE == "Calculated hash for 0x%08x - 0x%08x"
MSG_MATCHES == "%d matches"

\* events of `calls`
Usage == [op |-> "usage"]
GetModule(name) == [op |-> "getModule", name |-> name]
ReadMemory(addr, len) == [op |-> "readMemory", addr |-> addr, len |-> len]
LogMD5(what) == [op |-> "logMD5", what |-> what]
ParsePE == [op |-> "PE"]
Compile(path, ok) == [op |-> "compile", path |-> path, ok |-> ok]
Match == [op |-> "match"]
CreateTable == [op |-> "createTable"]
TableAdd(row) == [op |-> "table.add", row |-> row]
ParseInt(text) == [op |-> "int", text |-> text]

\* main returns `r` after the calls `cs`; nothing else changes
Finish(r, cs) ==
    /\ pc' = "done"
    /\ ret' = r
    /\ calls' = calls \o cs

----------------------------------------------------------------------------
(* main *)

ArgLists == SeqsUpTo(Tokens, MaxArgs)

Init ==
    /\ script \in {"memhash", "memyara"}
    /\ argv \in ArgLists
    /\ pc = "main"
    /\ opts = <<>>
    /\ args = argv
    /\ module = None
    /\ rules_file = None
    /\ modname = None
    /\ mod = NoModule
    /\ pe = NoPE
    /\ idx = 0
    /\ start_addr = 0
    /\ end_addr = 0
    /\ matches = -1
    /\ calls = <<>>
    /\ ret = Running

\* opts, args = getopt.getopt(args, ...), GetoptError caught
MainGetopt ==
    /\ pc = "main"
    /\ LET r == Getopt(args, Shortopts(script))
       IN  IF r.err
           THEN /\ Finish(Return(MSG_INCORRECT, <<>>, <<>>), <<Usage>>)
                /\ UNCHANGED <<opts, args>>
           ELSE /\ opts' = r.opts
                /\ args' = r.args
                /\ pc' = "options"
                /\ UNCHANGED <<calls, ret>>
    /\ UNCHANGED <<script, argv, module, rules_file, modname, mod, pe, idx,
                   start_addr, end_addr, matches>>

\* the value a local has after `for opt, arg in opts`, when the loop assigns
\* it from option `o` and no -h stops the loop
RECURSIVE LastArgOf(_, _, _)
LastArgOf(os, o, dflt) ==
    IF os = <<>> THEN dflt
    ELSE LastArgOf(Tail(os), o, IF Head(os).opt = o THEN Head(os).arg ELSE dflt)

\* variant: only a leading -h is honoured
HelpAsked_FirstOnly(os) == os # <<>> /\ os[1].opt = T_h

HelpAsked(os) == \E i \in 1..Len(os) : os[i].opt = T_h

\* for opt, arg in opts: ...
MainOptions ==
    /\ pc = "options"
    /\ IF HelpAsked(opts)
       THEN /\ Finish(Return("", <<>>, <<>>), <<Usage>>)
            /\ UNCHANGED <<module, rules_file>>
       ELSE /\ module' = LastArgOf(opts, T_m, None)
            /\ rules_file' = IF script = "memyara"
                             THEN LastArgOf(opts, T_r, None) ELSE rules_file
            /\ pc' = IF script = "memyara" THEN "rules" ELSE "target"
            /\ UNCHANGED <<calls, ret>>
    /\ UNCHANGED <<script, argv, opts, args, modname, mod, pe, idx,
                   start_addr, end_addr, matches>>

\* variant: a missing rules path is not checked before the target
MainRules_SkipMissing ==
    /\ pc = "rules"
    /\ IF ~Truthy(rules_file)
       THEN /\ pc' = "target"
            /\ UNCHANGED <<calls, ret>>
       ELSE \E outcome \in {"rules", "YaraSyntaxError", "YaraError"} :
                IF outcome = "rules"
                THEN /\ pc' = "target"
                     /\ calls' = Append(calls, Compile(rules_file, TRUE))
                     /\ UNCHANGED ret
                ELSE Finish(Return(MSG_BAD_RULES, rules_file, <<>>),
                            <<Compile(rules_file, FALSE)>>)
    /\ UNCHANGED <<script, argv, opts, args, module, rules_file, modname, mod,
                   pe, idx, start_addr, end_addr, matches>>

\* memyara: if not rules_file ... rules = yara.compile(filepath=rules_file)
MainRules ==
    /\ pc = "rules"
    /\ IF ~Truthy(rules_file)
       THEN Finish(Return(MSG_NO_RULES, <<>>, <<>>), <<Usage>>)
       ELSE \E outcome \in {"rules", "YaraSyntaxError", "YaraError"} :
                IF outcome = "rules"
                THEN /\ pc' = "target"
                     /\ calls' = Append(calls, Compile(rules_file, TRUE))
                     /\ UNCHANGED ret
                ELSE Finish(Return(MSG_BAD_RULES, rules_file, <<>>),
                            <<Compile(rules_file, FALSE)>>)
    /\ UNCHANGED <<script, argv, opts, args, module, rules_file, modname, mod,
                   pe, idx, start_addr, end_addr, matches>>

\* variant: the positional count is looked at before the module
TargetOf_RangeFirst(m, a) ==
    IF Len(a) = 2 THEN "range"
    ELSE IF Truthy(m) THEN "module"
    ELSE "incorrect"

\* if module: ... elif len(args) == 2: ... else: ...
TargetOf(m, a) ==
    IF Truthy(m) THEN "module"
    ELSE IF Len(a) = 2 THEN "range"
    ELSE "incorrect"

MainTarget ==
    /\ pc = "target"
    /\ LET t == TargetOf(module, args)
       IN  IF t = "incorrect"
           THEN Finish(Return(MSG_INCORRECT, <<>>, <<>>), <<Usage>>)
           ELSE /\ pc' = t
                /\ UNCHANGED <<calls, ret>>
    /\ UNCHANGED <<script, argv, opts, args, module, rules_file, modname, mod,
                   pe, idx, start_addr, end_addr, matches>>

----------------------------------------------------------------------------
(* Module mode *)

\* what imm.getModule may answer
ModuleAnswers == LoadedModules \cup {NoModule}

\* memhash hash_module: the suffix rule, imm.getModule, `if not module`
HashModuleLookup ==
    /\ pc = "module" /\ script = "memhash"
    /\ modname' = LookupName(module)
    /\ \E m \in ModuleAnswers :
        /\ mod' = m
        /\ IF ~m.loaded
           THEN Finish(Return(MSG_NOT_LOADED, modname', <<>>), <<GetModule(modname')>>)
           ELSE /\ pc' = "pe"
                /\ calls' = Append(calls, GetModule(modname'))
                /\ UNCHANGED ret
    /\ UNCHANGED <<script, argv, opts, args, module, rules_file, pe, idx,
                   start_addr, end_addr, matches>>

\* memhash hash_module: pe = PE(name=module.getPath()), nothing caught
HashModulePE ==
    /\ pc = "pe"
    /\ \/ /\ Finish(Raise("PEFormatError"), <<ParsePE>>)
          /\ UNCHANGED pe
       \/ /\ pe' \in PEFiles
          /\ pc' = "sections"
          /\ calls' = Append(calls, ParsePE)
          /\ UNCHANGED ret
    /\ UNCHANGED <<script, argv, opts, args, module, rules_file, modname, mod,
                   idx, start_addr, end_addr, matches>>

\* size = virtual_size + (alignment - virtual_size % alignment)
SectionReadSize(virtual_size, alignment) ==
    virtual_size + (alignment - (virtual_size % alignment))

\* memhash hash_module: one iteration of `for section in pe.sections`
HashModuleSection ==
    /\ pc = "sections"
    /\ idx < Len(pe.sections)
    /\ LET section == pe.sections[idx + 1]
           start == mod.base + section.va
       IN  IF pe.alignment = 0
           THEN /\ Finish(Raise("ZeroDivisionError"), <<>>)
                /\ UNCHANGED idx
           ELSE LET size == SectionReadSize(section.vsize, pe.alignment)
                IN  \/ /\ calls' = calls \o <<ReadMemory(start, size), LogMD5(idx + 1)>>
                       /\ idx' = idx + 1
                       /\ UNCHANGED <<pc, ret>>
                    \/ /\ Finish(Raise("ReadError"), <<ReadMemory(start, size)>>)
                       /\ UNCHANGED idx
    /\ UNCHANGED <<script, argv, opts, args, module, rules_file, modname, mod,
                   pe, start_addr, end_addr, matches>>

\* memhash hash_module: return 'Calculated hash for %s' % module.name
HashModuleReturn ==
    /\ pc = "sections"
    /\ idx = Len(pe.sections)
    /\ Finish(Return(MSG_HASHED_MODULE, modname, <<>>), <<>>)
    /\ UNCHANGED <<script, argv, opts, args, module, rules_file, modname, mod,
                   pe, idx, start_addr, end_addr, matches>>

\* memyara run_yara_on_module: the suffix rule, imm.getModule, `if not module`
YaraModuleLookup ==
    /\ pc = "module" /\ script = "memyara"
    /\ modname' = LookupName(module)
    /\ \E m \in ModuleAnswers :
        /\ mod' = m
        /\ IF ~m.loaded
           THEN Finish(Return(MSG_NOT_LOADED, modname', <<>>), <<GetModule(modname')>>)
           ELSE /\ pc' = "readmodule"
                /\ calls' = Append(calls, GetModule(modname'))
                /\ UNCHANGED ret
    /\ UNCHANGED <<script, argv, opts, args, module, rules_file, pe, idx,
                   start_addr, end_addr, matches>>

\* memyara run_yara_on_module: data = imm.readMemory(base, size)
YaraModuleRead ==
    /\ pc = "readmodule"
    /\ \/ /\ calls' = Append(calls, ReadMemory(mod.base, mod.size))
          /\ pc' = "match"
          /\ UNCHANGED ret
       \/ Finish(Raise("ReadError"), <<ReadMemory(mod.base, mod.size)>>)
    /\ UNCHANGED <<script, argv, opts, args, module, rules_file, modname, mod,
                   pe, idx, start_addr, end_addr, matches>>

----------------------------------------------------------------------------
(* Address-range mode *)

\* variant: the order of the addresses is checked after the read
ValidateRange_ReadsFirst(text0, text1) ==
    LET s == IntBase16(text0)
        e == IntBase16(text1)
    IN  IF ~s.ok
        THEN [ok |-> FALSE, msg |-> MSG_BAD_START, arg |-> text0, start |-> 0,
              end |-> 0, calls |-> <<ParseInt(text0), Usage>>]
        ELSE IF ~e.ok
        THEN [ok |-> FALSE, msg |-> MSG_BAD_END, arg |-> text1, start |-> s.val,
              end |-> 0, calls |-> <<ParseInt(text0), ParseInt(text1), Usage>>]
        ELSE IF s.val >= e.val
        THEN [ok |-> FALSE, msg |-> MSG_ORDER, arg |-> <<>>, start |-> s.val,
              end |-> e.val,
              calls |-> <<ParseInt(text0), ParseInt(text1),
                          ReadMemory(s.val, e.val - s.val), Usage>>]
        ELSE [ok |-> TRUE, msg |-> "", arg |-> <<>>, start |-> s.val,
              end |-> e.val, calls |-> <<ParseInt(text0), ParseInt(text1)>>]

\* variant: start > end instead of start >= end
ValidateRange_AllowsEqual(text0, text1) ==
    LET s == IntBase16(text0)
        e == IntBase16(text1)
    IN  IF ~s.ok
        THEN [ok |-> FALSE, msg |-> MSG_BAD_START, arg |-> text0, start |-> 0,
              end |-> 0, calls |-> <<ParseInt(text0), Usage>>]
        ELSE IF ~e.ok
        THEN [ok |-> FALSE, msg |-> MSG_BAD_END, arg |-> text1, start |-> s.val,
              end |-> 0, calls |-> <<ParseInt(text0), ParseInt(text1), Usage>>]
        ELSE IF s.val > e.val
        THEN [ok |-> FALSE, msg |-> MSG_ORDER, arg |-> <<>>, start |-> s.val,
              end |-> e.val, calls |-> <<ParseInt(text0), ParseInt(text1), Usage>>]
        ELSE [ok |-> TRUE, msg |-> "", arg |-> <<>>, start |-> s.val,
              end |-> e.val, calls |-> <<ParseInt(text0), ParseInt(text1)>>]

\* The validation both scripts run on the two positionals: the result is
\* [ok, msg, arg, start, end, calls]
\* (`if start_addr is None or end_addr is None` cannot be taken: int() has
\* returned an integer for both by then)
ValidateRange(text0, text1) ==
    LET s == IntBase16(text0)
        e == IntBase16(text1)
    IN  IF ~s.ok
        THEN [ok |-> FALSE, msg |-> MSG_BAD_START, arg |-> text0, start |-> 0,
              end |-> 0, calls |-> <<ParseInt(text0), Usage>>]
        ELSE IF ~e.ok
        THEN [ok |-> FALSE, msg |-> MSG_BAD_END, arg |-> text1, start |-> s.val,
              end |-> 0, calls |-> <<ParseInt(text0), ParseInt(text1), Usage>>]
        ELSE IF s.val >= e.val
        THEN [ok |-> FALSE, msg |-> MSG_ORDER, arg |-> <<>>, start |-> s.val,
              end |-> e.val, calls |-> <<ParseInt(text0), ParseInt(text1), Usage>>]
        ELSE [ok |-> TRUE, msg |-> "", arg |-> <<>>, start |-> s.val,
              end |-> e.val, calls |-> <<ParseInt(text0), ParseInt(text1)>>]

\* memhash hash_address_range: the validation
HashRangeValidate ==
    /\ pc = "range" /\ script = "memhash"
    /\ LET v == ValidateRange(args[1], args[2])
       IN  /\ start_addr' = v.start
           /\ end_addr' = v.end
           /\ IF v.ok
              THEN /\ pc' = "hashrange"
                   /\ calls' = calls \o v.calls
                   /\ UNCHANGED ret
              ELSE Finish(Return(v.msg, v.arg, <<>>), v.calls)
    /\ UNCHANGED <<script, argv, opts, args, module, rules_file, modname, mod,
                   pe, idx, matches>>

\* memhash hash_address_range: readMemory, md5, log, return
HashRangeRead ==
    /\ pc = "hashrange"
    /\ LET read == ReadMemory(start_addr, end_addr - start_addr)
       IN  \/ Finish(Return(MSG_HASHED_RANGE, <<>>, <<start_addr, end_addr>>),
                     <<read, LogMD5(0)>>)
           \/ Finish(Raise("ReadError"), <<read>>)
    /\ UNCHANGED <<script, argv, opts, args, module, rules_file, modname, mod,
                   pe, idx, start_addr, end_addr, matches>>

\* memyara run_yara_on_address_range: the validation
YaraRangeValidate ==
    /\ pc = "range" /\ script = "memyara"
    /\ LET v == ValidateRange(args[1], args[2])
       IN  /\ start_addr' = v.start
           /\ end_addr' = v.end
           /\ IF v.ok
              THEN /\ pc' = "readrange"
                   /\ calls' = calls \o v.calls
                   /\ UNCHANGED ret
              ELSE Finish(Return(v.msg, v.arg, <<>>), v.calls)
    /\ UNCHANGED <<script, argv, opts, args, module, rules_file, modname, mod,
                   pe, idx, matches>>

\* memyara run_yara_on_address_range: data = imm.readMemory(start, end - start)
YaraRangeRead ==
    /\ pc = "readrange"
    /\ LET read == ReadMemory(start_addr, end_addr - start_addr)
       IN  \/ /\ calls' = Append(calls, read)
              /\ pc' = "match"
              /\ UNCHANGED ret
           \/ Finish(Raise("ReadError"), <<read>>)
    /\ UNCHANGED <<script, argv, opts, args, module, rules_file, modname, mod,
                   pe, idx, start_addr, end_addr, matches>>

----------------------------------------------------------------------------
(* memyara: matching and the results table *)

\* matches = rules.match(data=data), nothing caught
YaraMatch ==
    /\ pc = "match"
    /\ \/ \E n \in 0..MaxMatches :
            /\ matches' = n
            /\ calls' = Append(calls, Match)
            /\ pc' = "display"
            /\ UNCHANGED ret
       \/ /\ Finish(Raise("YaraMatchError"), <<Match>>)
          /\ UNCHANGED matches
    /\ UNCHANGED <<script, argv, opts, args, module, rules_file, modname, mod,
                   pe, idx, start_addr, end_addr>>

\* variant: the first match record is skipped
Rows_SkipFirst(n) == [i \in 1..(n - 1) |-> TableAdd(i + 1)]

\* the table.add calls of rows 1..n
Rows(n) == [i \in 1..n |-> TableAdd(i)]

\* _display_results, then return '%d matches' % len(matches); formatting a
\* match record (match.strings[0..2]) may raise at any row
DisplayResults ==
    /\ pc = "display"
    /\ \/ Finish(Return(MSG_MATCHES, <<>>, <<matches>>),
                 <<CreateTable>> \o Rows(matches))
       \/ \E bad \in 1..matches :
            Finish(Raise("IndexError"), <<CreateTable>> \o Rows(bad - 1))
    /\ UNCHANGED <<script, argv, opts, args, module, rules_file, modname, mod,
                   pe, idx, start_addr, end_addr, matches>>

----------------------------------------------------------------------------

Next ==
    \/ MainGetopt
    \/ MainOptions
    \/ MainRules
    \/ MainTarget
    \/ HashModuleLookup
    \/ HashModulePE
    \/ HashModuleSection
    \/ HashModuleReturn
    \/ HashRangeValidate
    \/ HashRangeRead
    \/ YaraModuleLookup
    \/ YaraModuleRead
    \/ YaraRangeValidate
    \/ YaraRangeRead
    \/ YaraMatch
    \/ DisplayResults

Spec == Init /\ [][Next]_vars

----------------------------------------------------------------------------
(* Vocabulary of the properties *)

Calls(o) == {i \in 1..Len(calls) : calls[i].op = o}

Count(o) == Cardinality(Calls(o))

Done == pc = "done"

Returned(msg) == Done /\ ret.kind = "return" /\ ret.msg = msg

\* hash_address_range / run_yara_on_address_range was entered
RangeMode == Calls("int") # {}

\* hash_module / run_yara_on_module was entered
ModuleMode == Calls("getModule") # {}

EndsWith(s, suffix) ==
    Len(s) >= Len(suffix) /\ SubSeq(s, Len(s) - Len(suffix) + 1, Len(s)) = suffix

\* getopt accepted the argument list
OptionsParsed == pc # "main" /\ ~Getopt(argv, Shortopts(script)).err

OptionsOf(o) == {i \in 1..Len(opts) : opts[i].opt = o}

HelpAmongOptions == OptionsOf(T_h) # {}

\* the argument of the last option `o`, None when `o` was not given
GivenArg(o) ==
    IF OptionsOf(o) = {} THEN None
    ELSE opts[CHOOSE i \in OptionsOf(o) : \A j \in OptionsOf(o) : j <= i].arg

\* main went past the option loop (and, in memyara, past rule compilation)
TargetReached ==
    /\ pc \notin {"main", "options", "rules"}
    /\ OptionsParsed
    /\ ~HelpAmongOptions
    /\ script = "memyara" => Calls("compile") # {} /\ \A i \in Calls("compile") : calls[i].ok

----------------------------------------------------------------------------
(* C1: whatever the arguments and whatever the host and the libraries       *)
(* answer, main ends by returning a string; nothing is raised further.      *)
C1_AlwaysReturnsString == Done => ret.kind = "return"

ErrorMessages == {MSG_INCORRECT, MSG_NO_RULES, MSG_BAD_RULES, MSG_NOT_LOADED,
                  MSG_BAD_START, MSG_BAD_END, MSG_ORDER}

(* C2: an invocation that returns an error message has made no readMemory   *)
(* call, created no table, added no row and logged no MD5 line.             *)
C2_ValidateThenExecute ==
    (Done /\ ret.kind = "return" /\ ret.msg \in ErrorMessages)
        => /\ Count("readMemory") = 0
           /\ Count("createTable") = 0
           /\ Count("table.add") = 0
           /\ Count("logMD5") = 0

C2_Witness == Returned(MSG_ORDER) /\ script = "memyara" /\ Count("compile") = 1

(* C3: in address-range mode readMemory is called at most once, only when   *)
(* both texts parse as hexadecimal and end > start, as readMemory(start,    *)
(* end - start) with a positive length; once both texts are validated with  *)
(* start >= end, the command has returned 'End address must be greater than *)
(* start address' and has not read.                                         *)
C3_RangeRead ==
    RangeMode =>
        LET s == IntBase16(args[1])
            e == IntBase16(args[2])
        IN  /\ Count("readMemory") <= 1
            /\ \A i \in Calls("readMemory") :
                /\ s.ok /\ e.ok /\ e.val > s.val
                /\ calls[i].addr = s.val
                /\ calls[i].len = e.val - s.val
                /\ calls[i].len > 0
            /\ (s.ok /\ e.ok /\ s.val >= e.val)
                => Returned(MSG_ORDER) /\ Count("readMemory") = 0

C3_Witness ==
    /\ RangeMode /\ Done /\ Count("readMemory") = 1
    /\ \A i \in Calls("readMemory") : calls[i].addr = 16 /\ calls[i].len = 16

(* C4: every address passed to readMemory in address-range mode is >= 0; a  *)
(* positional that denotes a negative number is rejected.                   *)
C4_UnsignedAddresses ==
    RangeMode => \A i \in Calls("readMemory") : calls[i].addr >= 0

C5_ExpectedName(n) ==
    IF \E ext \in KNOWN_EXTENSIONS : EndsWith(n, <<".">> \o ext)
    THEN n
    ELSE n \o DOT_DLL

(* C5: in module mode getModule is called exactly once, with n + '.dll' if  *)
(* the given name n does not end in '.exe', '.sys' or '.dll', and with n    *)
(* otherwise.                                                               *)
C5_DllSuffix ==
    ModuleMode =>
        /\ Count("getModule") = 1
        /\ \A i \in Calls("getModule") : calls[i].name = C5_ExpectedName(GivenArg(T_m))

ModuleDerived(addr) ==
    /\ mod.loaded
    /\ script = "memyara" => addr = mod.base
    /\ script = "memhash" =>
          \E k \in 1..Len(pe.sections) : addr = mod.base + pe.sections[k].va

(* C6 as stated: when -m is given no positional is parsed as an address and *)
(* every read is at an address derived from the module's base; the address  *)
(* range path is taken only with no -m and exactly two positionals; with no *)
(* -m and another number of positionals main returns 'Incorrect arguments   *)
(* (check log window)'.                                                     *)
C6_ModuleInsteadOfRange_AsStated ==
    OptionsParsed =>
        /\ OptionsOf(T_m) # {} =>
              /\ ~RangeMode
              /\ \A i \in Calls("readMemory") : ModuleDerived(calls[i].addr)
        /\ RangeMode => OptionsOf(T_m) = {} /\ Len(args) = 2
        /\ (Done /\ TargetReached /\ OptionsOf(T_m) = {} /\ Len(args) # 2)
              => Returned(MSG_INCORRECT)

(* C6 amended: the same, with "-m is given" read as "the last -m names a    *)
(* non-empty module".                                                       *)
C6_ModuleInsteadOfRange ==
    OptionsParsed =>
        /\ Truthy(GivenArg(T_m)) =>
              /\ ~RangeMode
              /\ \A i \in Calls("readMemory") : ModuleDerived(calls[i].addr)
        /\ RangeMode => ~Truthy(GivenArg(T_m)) /\ Len(args) = 2
        /\ (Done /\ TargetReached /\ ~Truthy(GivenArg(T_m)) /\ Len(args) # 2)
              => Returned(MSG_INCORRECT)

C6_Witness ==
    /\ Truthy(GivenArg(T_m)) /\ Len(args) = 2
    /\ IntBase16(args[1]).ok /\ IntBase16(args[2]).ok
    /\ Returned(MSG_HASHED_MODULE) /\ Count("readMemory") >= 1

(* C7: whenever -h is among the options getopt returned, main logs the      *)
(* usage, returns '' and calls nothing else of the host or the libraries.   *)
C7_HelpWins ==
    (OptionsParsed /\ HelpAmongOptions)
        => \/ pc = "options" /\ calls = <<>>
           \/ Done /\ ret = Return("", <<>>, <<>>) /\ calls = <<Usage>>

C7_Witness ==
    /\ Done /\ script = "memyara" /\ OptionsParsed
    /\ HelpAmongOptions /\ 1 \notin OptionsOf(T_h)
    /\ OptionsOf(T_r) = {} /\ OptionsOf(T_m) # {} /\ Len(args) >= 1

C8_TargetCalls == Calls("getModule") \cup Calls("int") \cup Calls("readMemory")

(* C8: in memyara, once the options are parsed and -h is not among them: no *)
(* rules path means 'Incorrect arguments (Path to Yara rule file required)' *)
(* and no compilation; a failed compilation means '<path> is an invalid     *)
(* Yara rules file'; either way no getModule call, no address parsing and   *)
(* no readMemory call is made; rules are compiled at most once, before any  *)
(* of those calls.                                                          *)
C8_RulesFirst ==
    (script = "memyara" /\ OptionsParsed /\ ~HelpAmongOptions /\ pc # "options") =>
        /\ ~Truthy(GivenArg(T_r)) =>
              /\ Count("compile") = 0 /\ C8_TargetCalls = {}
              /\ pc # "rules" => Returned(MSG_NO_RULES)
        /\ \A i \in Calls("compile") :
              /\ calls[i].path = GivenArg(T_r)
              /\ ~calls[i].ok =>
                    /\ Done /\ ret = Return(MSG_BAD_RULES, GivenArg(T_r), <<>>)
                    /\ C8_TargetCalls = {}
              /\ \A j \in C8_TargetCalls : i < j
        /\ Count("compile") <= 1
        /\ C8_TargetCalls # {} => Count("compile") = 1

C8_Witness ==
    /\ script = "memyara" /\ Returned(MSG_BAD_RULES)
    /\ Len(args) = 2 /\ ~IntBase16(args[1]).ok

(* C9: a memyara run that returns 'N matches' has read once, matched once   *)
(* on that buffer, created exactly one table after matching, and added as   *)
(* many rows as rules.match returned records, which is N.                   *)
C9_TableRows ==
    Returned(MSG_MATCHES) =>
        /\ Count("readMemory") = 1
        /\ Count("match") = 1
        /\ Count("createTable") = 1
        /\ Count("table.add") = matches
        /\ ret.nums = <<matches>>
        /\ \A r \in Calls("readMemory"), m \in Calls("match"),
              t \in Calls("createTable") :
                /\ r < m /\ m < t
                /\ \A a \in Calls("table.add") : t < a

C9_Witness == Returned(MSG_MATCHES) /\ matches >= 1 /\ ModuleMode

C10_RoundUp(virtual_size, alignment) ==
    CHOOSE n \in virtual_size..(virtual_size + alignment - 1) : n % alignment = 0

C10_NthRead(k) ==
    calls[CHOOSE i \in Calls("readMemory") :
            Cardinality({j \in Calls("readMemory") : j <= i}) = k]

(* C10: a memhash module run that completes has made, for each section in   *)
(* order, one readMemory call at base + VirtualAddress whose length is the  *)
(* smallest multiple of SectionAlignment that is >= the virtual size.       *)
C10_SectionReads ==
    Returned(MSG_HASHED_MODULE) =>
        /\ Count("readMemory") = Len(pe.sections)
        /\ \A k \in 1..Len(pe.sections) :
              C10_NthRead(k) =
                  ReadMemory(mod.base + pe.sections[k].va,
                             C10_RoundUp(pe.sections[k].vsize, pe.alignment))

====
